---------------------------- MODULE Spec2Model ----------------------------
(***************************************************************************)
(* Model of the inventory-count API of src/index.js: the scan, review,     *)
(* update and commit handlers running as concurrent request handlers over  *)
(* the tables inventory_counts (drafts) and stock_levels (stock ledger)    *)
(* of one PostgreSQL database.                                             *)
(*                                                                         *)
(* Every "await pool.query / client.query" of a handler is one step, so    *)
(* handlers interleave between their statements.  Statements issued with   *)
(* pool.query are autocommitted; the statements of the commit handler run  *)
(* in one READ COMMITTED transaction: its writes are private until COMMIT, *)
(* the rows it wrote are locked until the transaction ends, and a          *)
(* statement of another handler that has to write a locked row waits.      *)
(* Every query may be rejected by the storage; a rejected query changes    *)
(* nothing.                                                                *)
(***************************************************************************)
EXTENDS Integers, Sequences, FiniteSets, TLC

\* --------------------------------------------------------------- bounds
MaxRequests == 3         \* requests received in one behaviour
LongRun == 4             \* requests received in one behaviour of SpecLong

\* ------------------------------------------------- tables read, not written
\* products(product_id, sku): the catalogue the scan resolves a barcode in
Products == { [product_id |-> 1, sku |-> "A1"], [product_id |-> 2, sku |-> "B2"] }
\* locations(name): the directory served by GET /locations
LocationNames == { "Dock", "Bay" }

\* ------------------------------------------------------- request inputs
LocationInputs == { "Dock", "Bay" }
\* the (barcode, location) bodies of the scan requests; "ZZ" is no product's sku
ScanInputs == { << "A1", "Dock" >>, << "A1", "Bay" >>, << "B2", "Dock" >>, << "ZZ", "Dock" >> }
\* a scan body whose location the directory does not list
UnlistedScan == << "B2", "Yard" >>
UserIds == { "u1", "u2" }
\* the staff members' sessions: each sends its own user_id and has at most
\* one request in flight, so two requests run concurrently when two staff
\* members send them
Clients == UserIds
QuantityInputs == { -1, 0, 3 }

VARIABLES
  inventory_counts,   \* committed rows of table inventory_counts
  stock_levels,       \* committed rows of table stock_levels
  nextId,             \* next value of the row-identity sequences
  pc,                 \* pc[c]: the statement handler c is about to await
  req,                \* req[c]: the body / query of the request c serves
  loc,                \* loc[c]: the handler's local variables
  tx,                 \* tx[c]: the uncommitted writes of c's transaction
  res,                \* res[c]: the response sent for c's latest request
  served,             \* number of requests received so far
  hist                \* history: what was acknowledged and promoted

vars == << inventory_counts, stock_levels, nextId, pc, req, loc, tx, res, served, hist >>

\* ------------------------------------------------------------ row helpers
NoReq == [ op |-> "none", barcode |-> "", location |-> "", user_id |-> "", id |-> 0, quantity |-> 0 ]
NoItem == [ id |-> 0, product_id |-> 0, quantity |-> 0 ]
NoLoc == [ product_id |-> 0, checkRes |-> {}, drafts |-> {}, todo |-> {}, item |-> NoItem,
           err |-> "" ]
NoTx == [ open |-> FALSE, stock |-> {}, deleted |-> {} ]
NoRes == [ op |-> "none", status |-> 0, success |-> FALSE, count |-> 0, rows |-> << >> ]

NoPre == [ counts |-> {}, stock |-> {} ]
NoFailed == [ how |-> "", counts |-> {}, stock |-> {} ]

Pairs == { << p.product_id, l >> : p \in Products, l \in LocationInputs }

\* rows of `rows` for one (product_id, location)
RowsOf(rows, product_id, location) ==
  { r \in rows : r.product_id = product_id /\ r.location = location }

\* WHERE ... AND status = 'DRAFT'
DraftRows(rows) == { r \in rows : r.status = "DRAFT" }

\* ids of the draft rows some open transaction has deleted and still locks
LockedDrafts(c) == UNION { tx[d].deleted : d \in Clients \ {c} }

\* identities of the stock rows some other open transaction has written
LockedStock(c) == UNION { { s.rid : s \in tx[d].stock } : d \in Clients \ {c} }

\* the ledger is shared with the point of sale ("Connects to the SAME DB as
\* POS"): when the API starts it already holds the stock the POS keeps, here
\* one row of product 1 at Dock with part of it reserved
PosStock == [ rid |-> 0, product_id |-> 1, location |-> "Dock", on_hand |-> 10, available |-> 8 ]

Init ==
  /\ inventory_counts = {}
  /\ stock_levels = { PosStock }
  /\ nextId = 1
  /\ pc = [ c \in Clients |-> "idle" ]
  /\ req = [ c \in Clients |-> NoReq ]
  /\ loc = [ c \in Clients |-> NoLoc ]
  /\ tx = [ c \in Clients |-> NoTx ]
  /\ res = [ c \in Clients |-> NoRes ]
  /\ served = 0
  /\ hist = [ acked |-> [ k \in Pairs |-> 0 ], promoted |-> [ k \in Pairs |-> 0 ],
              ops |-> {},
              alone |-> [ c \in Clients |-> TRUE ],
              pre |-> [ c \in Clients |-> NoPre ],
              failed |-> [ l \in LocationInputs |-> NoFailed ],
              retry |-> [ c \in Clients |-> "" ] ]

\* ------------------------------------------------------------ responses
Ok200 == [ NoRes EXCEPT !.status = 200, !.success = TRUE ]
NotFound404 == [ NoRes EXCEPT !.status = 404 ]
Error500 == [ NoRes EXCEPT !.status = 500 ]

\* request r works on the rows of `location`: a scan or a commit there, or an
\* update (which names a row by id, whatever its location)
Touches(r, location) ==
  \/ r.op \in { "scan", "commit" } /\ r.location = location
  \/ r.op = "update"

\* the rows of one location
AtLocation(rows, location) == { r \in rows : r.location = location }

\* history: whether an update or a commit was received so far, the tables
\* as request r of client c found them, whether any other request on the
\* same location is in flight together with it, and whether it is a commit
\* that retries a failed commit nothing has come after (retry: whether the
\* failed commit was rejected after its upserts, or earlier)
Overlaps(c, r) ==
  [ hist EXCEPT
      !.retry[c] = IF r.op = "commit" THEN hist.failed[r.location].how ELSE "",
      !.failed = [ l \in LocationInputs |->
                     IF Touches(r, l) THEN NoFailed ELSE hist.failed[l] ],
      !.ops = @ \cup ({ r.op } \cap { "update", "commit" }),
      !.pre[c] = IF r.op = "commit"
                 THEN [ counts |-> inventory_counts, stock |-> stock_levels ]
                 ELSE NoPre,
      !.alone = [ d \in Clients |->
                    IF d = c
                    THEN \A e \in Clients \ {c} :
                           pc[e] = "idle" \/ ~ Touches(req[e], r.location)
                    ELSE IF pc[d] = "idle" THEN hist.alone[d]
                    ELSE hist.alone[d] /\ ~ Touches(r, req[d].location) ] ]

\* a handler is entered: the request is parsed and nothing is sent yet
Receive(c, r, first) ==
  /\ pc[c] = "idle"
  /\ hist' = Overlaps(c, r)
  /\ served' = served + 1
  /\ req' = [ req EXCEPT ![c] = r ]
  /\ pc' = [ pc EXCEPT ![c] = first ]
  /\ loc' = [ loc EXCEPT ![c] = NoLoc ]
  /\ res' = [ res EXCEPT ![c] = NoRes ]

\* the handler sends its response and returns; its locals go out of scope
\* (h: the history, which forgets the request)
Respond(c, r, h) ==
  /\ hist' = [ h EXCEPT !.pre[c] = NoPre, !.alone[c] = TRUE, !.retry[c] = "" ]
  /\ res' = [ res EXCEPT ![c] = [ r EXCEPT !.op = req[c].op ] ]
  /\ pc' = [ pc EXCEPT ![c] = "idle" ]
  /\ loc' = [ loc EXCEPT ![c] = NoLoc ]
  /\ req' = [ req EXCEPT ![c] = NoReq ]

\* ------------------------------------------------ POST /inventory/scan
ScanRequest(c, barcode, location) ==
  /\ Receive(c, [ NoReq EXCEPT !.op = "scan", !.barcode = barcode,
                               !.location = location, !.user_id = c ],
             "scan_product")
  /\ UNCHANGED << inventory_counts, stock_levels, nextId, tx >>

\* mutant of ProductRes: the WHERE clause is lost, every product is returned
ProductResAny(barcode) == Products

\* SELECT product_id, name, sku FROM products WHERE sku = $1
ProductRes(barcode) == { p \in Products : p.sku = barcode }

ScanProductMissing(c) ==
  /\ pc[c] = "scan_product"
  /\ ProductRes(req[c].barcode) = {}
  /\ Respond(c, NotFound404, hist)
  /\ UNCHANGED << inventory_counts, stock_levels, nextId, tx, served >>

ScanProductFound(c) ==
  /\ pc[c] = "scan_product"
  /\ \E product \in ProductRes(req[c].barcode) :
       loc' = [ loc EXCEPT ![c].product_id = product.product_id ]
  /\ pc' = [ pc EXCEPT ![c] = "scan_check" ]
  /\ UNCHANGED << inventory_counts, stock_levels, nextId, req, tx, res, served, hist >>

\* SELECT id FROM inventory_counts WHERE product_id = $1 AND location = $2
\*   AND status = 'DRAFT'
CheckRes(rows, product_id, location) ==
  { r.id : r \in DraftRows(RowsOf(rows, product_id, location)) }

ScanCheck(c) ==
  /\ pc[c] = "scan_check"
  /\ loc' = [ loc EXCEPT ![c].checkRes =
                CheckRes(inventory_counts, loc[c].product_id, req[c].location) ]
  /\ pc' = [ pc EXCEPT ![c] = "scan_write" ]
  /\ UNCHANGED << inventory_counts, stock_levels, nextId, req, tx, res, served, hist >>

\* mutant of IncrementQuantity: the merge also stamps the row anew
IncrementQuantityRestamps(rows, id) ==
  { IF r.id = id
    THEN [ r EXCEPT !.quantity = r.quantity + 1, !.scanned_at = r.scanned_at + 1 ]
    ELSE r : r \in rows }

\* UPDATE inventory_counts SET quantity = quantity + 1 WHERE id = $1
IncrementQuantity(rows, id) ==
  { IF r.id = id THEN [ r EXCEPT !.quantity = r.quantity + 1 ] ELSE r : r \in rows }

\* INSERT INTO inventory_counts (product_id, location, quantity, user_id, status)
\*   VALUES ($1, $2, 1, $3, 'DRAFT'); id and scanned_at take their defaults
NewDraft(id, product_id, location, user_id) ==
  [ id |-> id, product_id |-> product_id, location |-> location, quantity |-> 1,
    user_id |-> user_id, scanned_at |-> id, status |-> "DRAFT" ]

\* history: one more scan of the pair answered with success
Acked(c) ==
  LET k == << loc[c].product_id, req[c].location >>
  IN  IF k \in Pairs THEN [ hist EXCEPT !.acked[k] = @ + 1 ] ELSE hist

ScanUpdate(c) ==
  /\ pc[c] = "scan_write"
  /\ loc[c].checkRes # {}
  /\ \E id \in loc[c].checkRes :       \* checkRes.rows[0], in no stated order
       /\ id \notin LockedDrafts(c)     \* waits for a transaction that deleted it
       /\ inventory_counts' = IncrementQuantity(inventory_counts, id)
  /\ Respond(c, Ok200, Acked(c))
  /\ UNCHANGED << stock_levels, nextId, tx, served >>

ScanInsert(c) ==
  /\ pc[c] = "scan_write"
  /\ loc[c].checkRes = {}
  /\ inventory_counts' = inventory_counts \cup
       { NewDraft(nextId, loc[c].product_id, req[c].location, req[c].user_id) }
  /\ nextId' = nextId + 1
  /\ Respond(c, Ok200, Acked(c))
  /\ UNCHANGED << stock_levels, tx, served >>

\* catch (err): a query of the scan handler was rejected
ScanFails(c) ==
  /\ pc[c] \in { "scan_product", "scan_check", "scan_write" }
  /\ Respond(c, Error500, hist)
  /\ UNCHANGED << inventory_counts, stock_levels, nextId, tx, served >>

\* ---------------------------------------------- GET /inventory/review
ReviewRequest(c, location) ==
  /\ Receive(c, [ NoReq EXCEPT !.op = "review", !.location = location ], "review_query")
  /\ UNCHANGED << inventory_counts, stock_levels, nextId, tx >>

\* ORDER BY ic.scanned_at DESC
RECURSIVE OrderByScannedAtDesc(_)
OrderByScannedAtDesc(rows) ==
  IF rows = {} THEN << >>
  ELSE LET first == CHOOSE r \in rows :
                      \A o \in rows : o.scanned_at < r.scanned_at
                                      \/ (o.scanned_at = r.scanned_at /\ o.id <= r.id)
       IN  << first >> \o OrderByScannedAtDesc(rows \ { first })

\* SELECT ic.id, ic.quantity, p.name, p.sku FROM inventory_counts ic
\*   JOIN products p ON ic.product_id = p.product_id
\*   WHERE ic.location = $1 AND ic.status = 'DRAFT' ORDER BY ic.scanned_at DESC
listDrafts(rows, location) ==
  LET joined == { r \in DraftRows(rows) :
                    /\ r.location = location
                    /\ \E p \in Products : p.product_id = r.product_id }
      ordered == OrderByScannedAtDesc(joined)
  IN  [ i \in 1..Len(ordered) |->
          [ id |-> ordered[i].id, quantity |-> ordered[i].quantity,
            sku |-> (CHOOSE p \in Products : p.product_id = ordered[i].product_id).sku ] ]

ReviewQuery(c) ==
  /\ pc[c] = "review_query"
  /\ Respond(c, [ Ok200 EXCEPT !.rows = listDrafts(inventory_counts, req[c].location) ], hist)
  /\ UNCHANGED << inventory_counts, stock_levels, nextId, tx, served >>

ReviewFails(c) ==
  /\ pc[c] = "review_query"
  /\ Respond(c, Error500, hist)
  /\ UNCHANGED << inventory_counts, stock_levels, nextId, tx, served >>

\* --------------------------------------------- POST /inventory/update
UpdateRequest(c, id, quantity) ==
  /\ Receive(c, [ NoReq EXCEPT !.op = "update", !.id = id, !.quantity = quantity ],
             "update_write")
  /\ UNCHANGED << inventory_counts, stock_levels, nextId, tx >>

\* DELETE FROM inventory_counts WHERE id = $1
DeleteById(rows, id) == { r \in rows : r.id # id }

\* mutant of SetQuantity: the quantity is added to the row's, not stored
SetQuantityAdds(rows, quantity, id) ==
  { IF r.id = id THEN [ r EXCEPT !.quantity = r.quantity + quantity ] ELSE r : r \in rows }

\* UPDATE inventory_counts SET quantity = $1 WHERE id = $2
SetQuantity(rows, quantity, id) ==
  { IF r.id = id THEN [ r EXCEPT !.quantity = quantity ] ELSE r : r \in rows }

\* mutant of UpdateDelete: the quantity is stored, zero or negative as it is
UpdateDeleteStores(c) ==
  /\ pc[c] = "update_write"
  /\ req[c].quantity <= 0
  /\ req[c].id \notin LockedDrafts(c)
  /\ inventory_counts' = SetQuantity(inventory_counts, req[c].quantity, req[c].id)
  /\ Respond(c, Ok200, hist)
  /\ UNCHANGED << stock_levels, nextId, tx, served >>

UpdateDelete(c) ==
  /\ pc[c] = "update_write"
  /\ req[c].quantity <= 0
  /\ req[c].id \notin LockedDrafts(c)
  /\ inventory_counts' = DeleteById(inventory_counts, req[c].id)
  /\ Respond(c, Ok200, hist)
  /\ UNCHANGED << stock_levels, nextId, tx, served >>

UpdateSet(c) ==
  /\ pc[c] = "update_write"
  /\ ~ (req[c].quantity <= 0)
  /\ req[c].id \notin LockedDrafts(c)
  /\ inventory_counts' = SetQuantity(inventory_counts, req[c].quantity, req[c].id)
  /\ Respond(c, Ok200, hist)
  /\ UNCHANGED << stock_levels, nextId, tx, served >>

UpdateFails(c) ==
  /\ pc[c] = "update_write"
  /\ Respond(c, Error500, hist)
  /\ UNCHANGED << inventory_counts, stock_levels, nextId, tx, served >>

\* --------------------------------------------- POST /inventory/commit
\* const client = await pool.connect()
CommitRequest(c, location) ==
  /\ Receive(c, [ NoReq EXCEPT !.op = "commit", !.location = location ], "commit_begin")
  /\ UNCHANGED << inventory_counts, stock_levels, nextId, tx >>

\* await client.query('BEGIN')
CommitBegin(c) ==
  /\ pc[c] = "commit_begin"
  /\ tx' = [ tx EXCEPT ![c] = [ NoTx EXCEPT !.open = TRUE ] ]
  /\ pc' = [ pc EXCEPT ![c] = "commit_select" ]
  /\ UNCHANGED << inventory_counts, stock_levels, nextId, req, loc, res, served, hist >>

\* mutant of SelectDrafts: SELECT DISTINCT, equal rows of the result collapse
SelectDraftsDistinct(rows, location) ==
  { [ id |-> 0, product_id |-> r.product_id, quantity |-> r.quantity ] :
      r \in { d \in DraftRows(rows) : d.location = location } }

\* SELECT product_id, quantity FROM inventory_counts
\*   WHERE location = $1 AND status = 'DRAFT'
\* (a row keeps its id here only to tell equal rows of the result apart)
SelectDrafts(rows, location) ==
  { [ id |-> r.id, product_id |-> r.product_id, quantity |-> r.quantity ] :
      r \in { d \in DraftRows(rows) : d.location = location } }

\* the head of the loop "for (const item of drafts.rows)": on to the next
\* item, or past the loop to the DELETE
LoopHead(todo) == IF todo = {} THEN "commit_delete" ELSE "commit_update"

CommitSelect(c) ==
  /\ pc[c] = "commit_select"
  /\ LET drafts == SelectDrafts(inventory_counts, req[c].location)
     IN  /\ loc' = [ loc EXCEPT ![c].drafts = drafts, ![c].todo = drafts ]
         /\ pc' = [ pc EXCEPT ![c] = LoopHead(drafts) ]
  /\ UNCHANGED << inventory_counts, stock_levels, nextId, req, tx, res, served, hist >>

\* the stock rows a statement of c's transaction sees: the committed rows,
\* with the rows the transaction wrote in place of their committed versions
StockView(c) ==
  { s \in stock_levels : \A w \in tx[c].stock : w.rid # s.rid } \cup tx[c].stock

\* mutant of UpdateStock: the count is added to the stock, not stored
UpdateStockAdds(rows, quantity) ==
  { [ s EXCEPT !.on_hand = s.on_hand + quantity, !.available = s.available + quantity ] :
      s \in rows }

\* UPDATE stock_levels SET on_hand = $1, available = $1
\*   WHERE product_id = $2 AND location = $3        (the rows it rewrites)
UpdateStock(rows, quantity) ==
  { [ s EXCEPT !.on_hand = quantity, !.available = quantity ] : s \in rows }

\* INSERT INTO stock_levels (product_id, location, on_hand, available)
\*   VALUES ($1, $2, $3, $3)
NewStock(rid, product_id, location, quantity) ==
  [ rid |-> rid, product_id |-> product_id, location |-> location,
    on_hand |-> quantity, available |-> quantity ]

CommitUpdateStock(c) ==
  /\ pc[c] = "commit_update"
  /\ \E item \in loc[c].todo :          \* drafts.rows comes in no stated order
       LET hit == RowsOf(StockView(c), item.product_id, req[c].location)
       IN  /\ \A s \in hit : s.rid \notin LockedStock(c)   \* waits for the writer
           /\ tx' = [ tx EXCEPT ![c].stock =
                        { w \in @ : w \notin hit } \cup UpdateStock(hit, item.quantity) ]
           /\ IF Cardinality(hit) = 0      \* updateRes.rowCount === 0
              THEN /\ loc' = [ loc EXCEPT ![c].item = item ]
                   /\ pc' = [ pc EXCEPT ![c] = "commit_insert" ]
              ELSE /\ loc' = [ loc EXCEPT ![c].todo = @ \ { item } ]
                   /\ pc' = [ pc EXCEPT ![c] = LoopHead(loc[c].todo \ { item }) ]
  /\ UNCHANGED << inventory_counts, stock_levels, nextId, req, res, served, hist >>

\* mutant of CommitInsertStock: the INSERT is sent with pool.query, outside
\* the transaction, and is committed at once
CommitInsertStockAutocommit(c) ==
  /\ pc[c] = "commit_insert"
  /\ LET item == loc[c].item
     IN  /\ stock_levels' = stock_levels \cup
               { NewStock(nextId, item.product_id, req[c].location, item.quantity) }
         /\ loc' = [ loc EXCEPT ![c].todo = @ \ { item }, ![c].item = NoItem ]
         /\ pc' = [ pc EXCEPT ![c] = LoopHead(loc[c].todo \ { item }) ]
  /\ nextId' = nextId + 1
  /\ UNCHANGED << inventory_counts, tx, req, res, served, hist >>

CommitInsertStock(c) ==
  /\ pc[c] = "commit_insert"
  /\ LET item == loc[c].item
     IN  /\ tx' = [ tx EXCEPT ![c].stock = @ \cup
                      { NewStock(nextId, item.product_id, req[c].location, item.quantity) } ]
         /\ loc' = [ loc EXCEPT ![c].todo = @ \ { item }, ![c].item = NoItem ]
         /\ pc' = [ pc EXCEPT ![c] = LoopHead(loc[c].todo \ { item }) ]
  /\ nextId' = nextId + 1
  /\ UNCHANGED << inventory_counts, stock_levels, req, res, served, hist >>

\* mutant of DeleteDrafts: the DELETE is not scoped to the location
DeleteDraftsEverywhere(rows, location) == { r.id : r \in DraftRows(rows) }

\* DELETE FROM inventory_counts WHERE location = $1 AND status = 'DRAFT'
\*   (the ids of the rows it deletes)
DeleteDrafts(rows, location) ==
  { r.id : r \in { d \in DraftRows(rows) : d.location = location } }

CommitDelete(c) ==
  /\ pc[c] = "commit_delete"
  /\ LET gone == DeleteDrafts(inventory_counts, req[c].location)
     IN  /\ gone \cap LockedDrafts(c) = {}           \* waits for the deleter
         /\ tx' = [ tx EXCEPT ![c].deleted = gone ]
  /\ pc' = [ pc EXCEPT ![c] = "commit_commit" ]
  /\ UNCHANGED << inventory_counts, stock_levels, nextId, req, loc, res, served, hist >>

\* history: the quantities a successful commit promoted, per pair
Promoted(c) ==
  [ k \in Pairs |->
      LET items == { i \in loc[c].drafts : << i.product_id, req[c].location >> = k }
          RECURSIVE Sum(_)
          Sum(S) == IF S = {} THEN 0
                    ELSE LET i == CHOOSE x \in S : TRUE
                         IN  i.quantity + Sum(S \ { i })
      IN  hist.promoted[k] + Sum(items) ]

\* await client.query('COMMIT'); res.json({ success: true, count });
\* finally client.release()
CommitCommit(c) ==
  /\ pc[c] = "commit_commit"
  /\ stock_levels' = StockView(c)
  /\ inventory_counts' = { r \in inventory_counts : r.id \notin tx[c].deleted }
  /\ tx' = [ tx EXCEPT ![c] = NoTx ]
  /\ Respond(c, [ Ok200 EXCEPT !.count = Cardinality(loc[c].drafts) ],
             [ hist EXCEPT !.promoted = Promoted(c) ])
  /\ UNCHANGED << nextId, served >>

\* history: a commit that ran alone has failed; the rows of its location as
\* it found them
Failed(c) ==
  LET l == req[c].location
  IN  IF hist.alone[c]
      THEN [ hist EXCEPT !.failed[l] =
               [ how |-> IF loc[c].err \in { "commit_delete", "commit_commit" }
                         THEN "upserted" ELSE "early",
                 counts |-> AtLocation(hist.pre[c].counts, l),
                 stock |-> AtLocation(hist.pre[c].stock, l) ] ]
      ELSE hist

\* catch (err): a query inside the try block was rejected
CommitFails(c) ==
  /\ pc[c] \in { "commit_begin", "commit_select", "commit_update", "commit_insert",
                 "commit_delete", "commit_commit" }
  /\ loc' = [ loc EXCEPT ![c].err = pc[c] ]
  /\ pc' = [ pc EXCEPT ![c] = "commit_rollback" ]
  /\ UNCHANGED << inventory_counts, stock_levels, nextId, req, tx, res, served, hist >>

\* mutant of CommitRollback: the statements were not run in the transaction,
\* so the ROLLBACK undoes nothing of what they wrote
CommitRollbackKeepsWrites(c) ==
  /\ pc[c] = "commit_rollback"
  /\ stock_levels' = StockView(c)
  /\ inventory_counts' = { r \in inventory_counts : r.id \notin tx[c].deleted }
  /\ tx' = [ tx EXCEPT ![c] = NoTx ]
  /\ Respond(c, Error500, Failed(c))
  /\ UNCHANGED << nextId, served >>

\* await client.query('ROLLBACK'); res.status(500).json(...);
\* finally client.release()
CommitRollback(c) ==
  /\ pc[c] = "commit_rollback"
  /\ tx' = [ tx EXCEPT ![c] = NoTx ]
  /\ Respond(c, Error500, Failed(c))
  /\ UNCHANGED << inventory_counts, stock_levels, nextId, served >>

\* the ROLLBACK query itself is rejected (the connection is gone, so the
\* server aborts the transaction): the rejection leaves the catch block
\* before res.status(500) is reached; finally client.release()
RollbackFails(c) ==
  /\ pc[c] = "commit_rollback"
  /\ tx' = [ tx EXCEPT ![c] = NoTx ]
  /\ Respond(c, NoRes, Failed(c))
  /\ UNCHANGED << inventory_counts, stock_levels, nextId, served >>

\* ------------------------------------------------------- specification
IdInputs == 1..nextId      \* nextId itself names no row

\* a request arrives at an idle session, as long as fewer than `limit` have
\* (scans: the scan bodies sent)
Request(limit, scans) ==
  \/ \E c \in Clients, s \in scans :
       served < limit /\ ScanRequest(c, s[1], s[2])
  \/ \E c \in Clients, l \in LocationInputs :
       served < limit /\ ReviewRequest(c, l)
  \/ \E c \in Clients, i \in IdInputs, q \in QuantityInputs :
       served < limit /\ UpdateRequest(c, i, q)
  \/ \E c \in Clients, l \in LocationInputs :
       served < limit /\ CommitRequest(c, l)

\* a handler in flight runs up to its next await
Step ==
  \/ \E c \in Clients : ScanProductMissing(c)
  \/ \E c \in Clients : ScanProductFound(c)
  \/ \E c \in Clients : ScanCheck(c)
  \/ \E c \in Clients : ScanUpdate(c)
  \/ \E c \in Clients : ScanInsert(c)
  \/ \E c \in Clients : ScanFails(c)
  \/ \E c \in Clients : ReviewQuery(c)
  \/ \E c \in Clients : ReviewFails(c)
  \/ \E c \in Clients : UpdateDelete(c)
  \/ \E c \in Clients : UpdateSet(c)
  \/ \E c \in Clients : UpdateFails(c)
  \/ \E c \in Clients : CommitBegin(c)
  \/ \E c \in Clients : CommitSelect(c)
  \/ \E c \in Clients : CommitUpdateStock(c)
  \/ \E c \in Clients : CommitInsertStock(c)
  \/ \E c \in Clients : CommitDelete(c)
  \/ \E c \in Clients : CommitCommit(c)
  \/ \E c \in Clients : CommitFails(c)
  \/ \E c \in Clients : CommitRollback(c)
  \/ \E c \in Clients : RollbackFails(c)

Next == Request(MaxRequests, ScanInputs) \/ Step

Spec == Init /\ [][Next]_vars

\* the same handlers over a longer run
NextLong == Request(LongRun, ScanInputs) \/ Step

SpecLong == Init /\ [][NextLong]_vars

\* the same handlers, with the scan of an unlisted location among the requests
NextAnywhere == Request(MaxRequests, ScanInputs \cup { UnlistedScan }) \/ Step

SpecAnywhere == Init /\ [][NextAnywhere]_vars

\* the commit handler alone, started on a database that holds the drafts
\* earlier scans left: product 1 counted twice and product 2 once at Dock,
\* product 1 counted three times at Bay
StagedDrafts ==
  { [ NewDraft(1, 1, "Dock", "u1") EXCEPT !.quantity = 2 ],
    NewDraft(2, 2, "Dock", "u2"),
    [ NewDraft(3, 1, "Bay", "u1") EXCEPT !.quantity = 3 ] }

InitCommits ==
  /\ inventory_counts = StagedDrafts
  /\ stock_levels = { PosStock }
  /\ nextId = Cardinality(StagedDrafts) + 1
  /\ pc = [ c \in Clients |-> "idle" ]
  /\ req = [ c \in Clients |-> NoReq ]
  /\ loc = [ c \in Clients |-> NoLoc ]
  /\ tx = [ c \in Clients |-> NoTx ]
  /\ res = [ c \in Clients |-> NoRes ]
  /\ served = 0
  /\ hist = [ acked |-> [ k \in Pairs |->
                           IF \E d \in StagedDrafts : << d.product_id, d.location >> = k
                           THEN (CHOOSE d \in StagedDrafts :
                                   << d.product_id, d.location >> = k).quantity
                           ELSE 0 ],
              promoted |-> [ k \in Pairs |-> 0 ],
              ops |-> {},
              alone |-> [ c \in Clients |-> TRUE ],
              pre |-> [ c \in Clients |-> NoPre ],
              failed |-> [ l \in LocationInputs |-> NoFailed ],
              retry |-> [ c \in Clients |-> "" ] ]

NextCommits ==
  \/ \E c \in Clients, l \in LocationInputs :
       served < MaxRequests /\ CommitRequest(c, l)
  \/ \E c \in Clients : CommitBegin(c)
  \/ \E c \in Clients : CommitSelect(c)
  \/ \E c \in Clients : CommitUpdateStock(c)
  \/ \E c \in Clients : CommitInsertStock(c)
  \/ \E c \in Clients : CommitDelete(c)
  \/ \E c \in Clients : CommitCommit(c)
  \/ \E c \in Clients : CommitFails(c)
  \/ \E c \in Clients : CommitRollback(c)
  \/ \E c \in Clients : RollbackFails(c)

SpecCommits == InitCommits /\ [][NextCommits]_vars

\* --------------------------------------------------------------- claims
Quiescent == \A c \in Clients : pc[c] = "idle"

DraftsOfPair(rows, k) == DraftRows(RowsOf(rows, k[1], k[2]))

RECURSIVE TotalQuantity(_)
TotalQuantity(rows) ==
  IF rows = {} THEN 0
  ELSE LET r == CHOOSE x \in rows : TRUE
       IN  r.quantity + TotalQuantity(rows \ { r })

\* C1: when only scans were sent and all of them have finished, every pair
\* that n > 0 scans were acknowledged for has exactly one DRAFT row, and
\* its quantity is n.
C1_ScansCounted ==
  (Quiescent /\ hist.ops = {}) =>
    \A k \in Pairs :
      hist.acked[k] > 0 =>
        /\ Cardinality(DraftsOfPair(inventory_counts, k)) = 1
        /\ \A r \in DraftsOfPair(inventory_counts, k) : r.quantity = hist.acked[k]

\* C2: in every reachable state there is at most one DRAFT row per
\* (product_id, location).
C2_OneDraftPerPair ==
  \A k \in Pairs : Cardinality(DraftsOfPair(inventory_counts, k)) <= 1

\* C4: with scans and commits only (no update), once every request has
\* finished, the scans acknowledged for a pair are all accounted for: their
\* number is at most the quantities the successful commits promoted for the
\* pair plus the quantities of the DRAFT rows the pair still has.
C4_NoAckedScanLost ==
  (Quiescent /\ "update" \notin hist.ops) =>
    \A k \in Pairs :
      hist.acked[k] <= hist.promoted[k] + TotalQuantity(DraftsOfPair(inventory_counts, k))

\* C7: in every reachable state the stock ledger holds at most one row per
\* (product_id, location).
C7_OneStockRowPerPair ==
  \A k \in Pairs : Cardinality(RowsOf(stock_levels, k[1], k[2])) <= 1

\* a commit of client c ends in this step: with COMMIT, or in the catch block
CommitSucceeds(c) == pc[c] = "commit_commit" /\ pc'[c] = "idle" /\ res'[c].status = 200
CommitEndsFailed(c) == pc[c] = "commit_rollback" /\ pc'[c] = "idle"

\* the rows of the commit's location are as the commit found them
LocationRestored(c) ==
  LET l == req[c].location
  IN  /\ AtLocation(inventory_counts', l) = AtLocation(hist.pre[c].counts, l)
      /\ AtLocation(stock_levels', l) = AtLocation(hist.pre[c].stock, l)

\* C3: when an upsert (UPDATE or INSERT) or the draft DELETE of a commit that
\* runs alone on its location is rejected, then at the end of the commit the
\* draft rows and the stock rows of the location are as before the commit
\* and the caller is answered 500 "Commit failed".
C3_FailedCommitRollsBack ==
  [][ \A c \in Clients :
        ( /\ CommitEndsFailed(c)
          /\ hist.alone[c]
          /\ loc[c].err \in { "commit_update", "commit_insert", "commit_delete" } )
        => (LocationRestored(c) /\ res'[c].status = 500) ]_vars

\* C5: when a commit that runs alone on its location succeeds, the review of
\* the location lists nothing, and every DRAFT row the location had before
\* the commit has a stock row of its pair with on_hand = available = the
\* draft's quantity.
C5_CommitPromotesDrafts ==
  [][ \A c \in Clients :
        (CommitSucceeds(c) /\ hist.alone[c]) =>
          LET l == req[c].location
          IN  /\ listDrafts(inventory_counts', l) = << >>
              /\ \A d \in AtLocation(DraftRows(hist.pre[c].counts), l) :
                   \E s \in RowsOf(stock_levels', d.product_id, l) :
                     s.on_hand = d.quantity /\ s.available = d.quantity ]_vars

\* the quantities the commit read for a product
QuantitiesRead(c, product_id) ==
  { i.quantity : i \in { j \in loc[c].drafts : j.product_id = product_id } }

\* C6: the upsert overwrites: when a commit succeeds, every stock row its
\* transaction wrote (updated or inserted) is in the ledger with on_hand =
\* available = a quantity the commit read for the row's product, whatever
\* the row held before, and every product it read has such a row.
C6_UpsertOverwrites ==
  [][ \A c \in Clients :
        CommitSucceeds(c) =>
          /\ \A w \in tx[c].stock :
               /\ w \in stock_levels'
               /\ w.location = req[c].location
               /\ w.on_hand \in QuantitiesRead(c, w.product_id)
               /\ w.available = w.on_hand
          /\ \A i \in loc[c].drafts :
               \E w \in tx[c].stock : w.product_id = i.product_id ]_vars

\* C6 witness: a commit has succeeded and the stock row the point of sale
\* kept (on_hand 10, available 8) now holds the counted quantity.
C6_Witness ==
  /\ \E c \in Clients : res[c].op = "commit" /\ res[c].status = 200 /\ res[c].count > 0
  /\ \E s \in stock_levels :
       /\ s.rid = PosStock.rid
       /\ s.on_hand # PosStock.on_hand
       /\ s.available = s.on_hand

\* what one commit of location l makes of the tables `pre`
SingleCommitOutcome(pre, counts, stock, l) ==
  /\ AtLocation(DraftRows(counts), l) = {}
  /\ \A p \in Products :
       LET read == { d.quantity : d \in DraftRows(RowsOf(pre.counts, p.product_id, l)) }
           old == RowsOf(pre.stock, p.product_id, l)
           new == RowsOf(stock, p.product_id, l)
       IN  IF read = {} THEN new = old
           ELSE /\ \E q \in read : \A s \in new : s.on_hand = q /\ s.available = q
                /\ IF old = {} THEN Cardinality(new) = 1
                   ELSE { s.rid : s \in new } = { s.rid : s \in old }

\* C8: a commit that fails while it runs alone on its location leaves the
\* location's draft rows and stock rows as it found them, so that as long as
\* nothing else touches the location a retry finds that same draft set; and a
\* commit that succeeds alone, a retry included, leaves what one commit makes
\* of the tables it found.
C8_RetryAfterRollback ==
  [][ /\ \A c \in Clients : (CommitEndsFailed(c) /\ hist.alone[c]) => LocationRestored(c)
      /\ \A l \in LocationInputs :
           hist.failed'[l].how # "" =>
             /\ AtLocation(inventory_counts', l) = hist.failed'[l].counts
             /\ AtLocation(stock_levels', l) = hist.failed'[l].stock
      /\ \A c \in Clients :
           (CommitSucceeds(c) /\ hist.alone[c]) =>
             SingleCommitOutcome(hist.pre[c], inventory_counts', stock_levels',
                                 req[c].location) ]_vars

\* C8 witness: a commit was rejected after it had upserted its drafts, and
\* its retry, alone on the location, has read the drafts again, upserted
\* them and deleted them, and is about to COMMIT.
C8_Witness ==
  \E c \in Clients :
    /\ pc[c] = "commit_commit"
    /\ hist.retry[c] = "upserted" /\ hist.alone[c]
    /\ loc[c].drafts # {}
    /\ tx[c].stock # {} /\ tx[c].deleted # {}

\* C9: an update answered with success on an existing draft row deletes the
\* row when the quantity is <= 0 (the review no longer lists it), and
\* otherwise stores exactly the quantity in the row and changes nothing else
\* of it: it stays a DRAFT row.
C9_UpdateSetsOrDeletes ==
  [][ \A c \in Clients :
        (pc[c] = "update_write" /\ pc'[c] = "idle" /\ res'[c].status = 200) =>
          \A r \in { x \in inventory_counts : x.id = req[c].id } :
            LET after == { x \in inventory_counts' : x.id = r.id }
                listed == listDrafts(inventory_counts', r.location)
            IN  IF req[c].quantity <= 0
                THEN /\ after = {}
                     /\ \A n \in 1..Len(listed) : listed[n].id # r.id
                ELSE /\ after = { [ r EXCEPT !.quantity = req[c].quantity ] }
                     /\ \A x \in after : x.status = "DRAFT"
                     /\ \E n \in 1..Len(listed) :
                          listed[n].id = r.id /\ listed[n].quantity = req[c].quantity ]_vars

\* C9 witness: one update has stored its quantity in a row no scans counted
\* up to it, and another, with a quantity <= 0, is about to delete a row
\* that exists.
C9_Witness ==
  /\ \E c \in Clients, r \in inventory_counts :
       /\ res[c].op = "update" /\ res[c].status = 200
       /\ r.quantity \in QuantityInputs
       /\ hist.acked[<< r.product_id, r.location >>] < r.quantity
  /\ \E c \in Clients, r \in inventory_counts :
       pc[c] = "update_write" /\ req[c].quantity <= 0 /\ req[c].id = r.id

\* C10: an update whose id names no draft row is answered 404 NotFound
\* (unless the storage rejects the query) and leaves the draft rows as they
\* are.
C10_UpdateUnknownIdNotFound ==
  [][ \A c \in Clients :
        ( /\ pc[c] = "update_write" /\ pc'[c] = "idle"
          /\ res'[c].status # 500
          /\ \A r \in inventory_counts : r.id # req[c].id )
        => (res'[c].status = 404 /\ inventory_counts' = inventory_counts) ]_vars

\* C11: a scan whose barcode is no product's sku ends at the product lookup:
\* it is answered 404 with success false (500 when the storage rejects the
\* lookup), and its step leaves the draft rows, the stock rows and the id
\* sequence as they are.
C11_ScanUnknownProductNotFound ==
  [][ \A c \in Clients :
        ( /\ req[c].op = "scan" /\ pc'[c] # pc[c]
          /\ \A p \in Products : p.sku # req[c].barcode )
        => /\ pc'[c] = "idle"
           /\ res'[c].status \in { 404, 500 }
           /\ res'[c].status = 404 => pc[c] = "scan_product" /\ ~ res'[c].success
           /\ UNCHANGED << inventory_counts, stock_levels, nextId >> ]_vars

\* C11 witness: the scan of "ZZ" was answered 404 while the tables hold rows
\* of earlier scans.
C11_Witness ==
  /\ \E c \in Clients : res[c].op = "scan" /\ res[c].status = 404
  /\ inventory_counts # {}

\* the statements of the commit handler after its SELECT
AfterSelect == { "commit_update", "commit_insert", "commit_delete", "commit_commit" }

\* C12: the SELECT of a commit reads as many rows as the location has DRAFT
\* rows at that moment, the handler keeps that result to its end, and a
\* successful commit answers success with count = the number of rows read
\* (for a commit alone on its location: the number of DRAFT rows the
\* location had when the commit arrived); a commit that read no row leaves
\* the stock ledger as it is.
C12_CommitReturnsCount ==
  [][ \A c \in Clients :
        LET l == req[c].location
        IN  /\ (pc[c] = "commit_select" /\ pc'[c] \in AfterSelect) =>
                 Cardinality(loc'[c].drafts)
                   = Cardinality(AtLocation(DraftRows(inventory_counts), l))
            /\ (pc[c] \in AfterSelect /\ pc'[c] \in AfterSelect) =>
                 loc'[c].drafts = loc[c].drafts
            /\ CommitSucceeds(c) =>
                 /\ res'[c].success
                 /\ res'[c].count = Cardinality(loc[c].drafts)
                 /\ hist.alone[c] =>
                      res'[c].count
                        = Cardinality(AtLocation(DraftRows(hist.pre[c].counts), l))
                 /\ res'[c].count = 0 => stock_levels' = stock_levels ]_vars

\* C12 witness: two products were scanned once each at Dock and the commit of
\* Dock was answered count 2: both are in the ledger with quantity 1 and no
\* draft row remains.
C12_Witness ==
  /\ \E c \in Clients : res[c].op = "commit" /\ res[c].status = 200 /\ res[c].count = 2
  /\ hist.acked[<< 1, "Dock" >>] = 1 /\ hist.acked[<< 2, "Dock" >>] = 1
  /\ inventory_counts = {}
  /\ \A p \in Products :
       \E s \in RowsOf(stock_levels, p.product_id, "Dock") : s.on_hand = 1 /\ s.available = 1

\* the ledger without the row identities, which the sequence hands out in
\* the order the INSERTs happen to run
Ledger(rows) ==
  { [ product_id |-> s.product_id, location |-> s.location,
      on_hand |-> s.on_hand, available |-> s.available ] : s \in rows }

\* what the commit of location l, run by itself, makes of the staged drafts
CommittedAlone(l) ==
  { [ product_id |-> d.product_id, location |-> l,
      on_hand |-> d.quantity, available |-> d.quantity ] : d \in AtLocation(StagedDrafts, l) }

\* a step of the commit handler of client c
CommitSteps(c) == req[c].op = "commit" /\ pc'[c] # pc[c]

\* C13: every step of a commit of location l leaves the draft rows and the
\* stock rows of every other location as they are, and writes only rows of l
\* in its transaction; and however the commits of Dock and of Bay interleave,
\* a location whose drafts are still there has the stock it started with
\* and a location whose drafts were committed has what its commit makes when
\* it is run by itself.
C13_LocationsIndependent ==
  /\ [][ \A c \in Clients :
            CommitSteps(c) =>
              /\ \A o \in LocationInputs \ { req[c].location } :
                   /\ AtLocation(inventory_counts', o) = AtLocation(inventory_counts, o)
                   /\ AtLocation(stock_levels', o) = AtLocation(stock_levels, o)
              /\ \A w \in tx'[c].stock : w.location = req[c].location
              /\ \A r \in inventory_counts :
                   r.id \in tx'[c].deleted => r.location = req[c].location ]_vars
  /\ [] ( \A l \in LocationInputs :
             /\ AtLocation(inventory_counts, l) \in { {}, AtLocation(StagedDrafts, l) }
             /\ AtLocation(inventory_counts, l) # {} =>
                  AtLocation(stock_levels, l) = AtLocation({ PosStock }, l)
             /\ AtLocation(inventory_counts, l) = {} =>
                  Ledger(AtLocation(stock_levels, l)) = CommittedAlone(l) )

\* C13 witness: the commits of Dock and of Bay are in flight together, each
\* has upserted and deleted the rows of its location and is about to COMMIT.
C13_Witness ==
  \E c, d \in Clients :
    /\ pc[c] = "commit_commit" /\ pc[d] = "commit_commit"
    /\ req[c].location = "Dock" /\ req[d].location = "Bay"
    /\ Cardinality(tx[c].stock) = 2 /\ Cardinality(tx[c].deleted) = 2
    /\ tx[d].stock # {} /\ tx[d].deleted # {}

\* C14: the loop of a commit takes the rows it read in any order, and what a
\* successful commit leaves does not depend on that order: every stock row
\* its transaction wrote holds, in on_hand and in available, the quantity of
\* every row read for the row's product (were two rows of different
\* quantities read for one product, the one taken last would decide), and
\* no DRAFT row read is left in the draft store.
C14_OrderIrrelevant ==
  [][ \A c \in Clients :
        CommitSucceeds(c) =>
          /\ \A w \in tx[c].stock :
               \A q \in QuantitiesRead(c, w.product_id) :
                 w.on_hand = q /\ w.available = q
          /\ \A i \in loc[c].drafts :
               \A r \in inventory_counts' : r.id # i.id ]_vars

\* C15: in every reachable state the location of every draft row is a name
\* the location directory lists.
C15_DraftLocationListed ==
  \A r \in inventory_counts : r.location \in LocationNames

\* C16: in every reachable state the quantity of every draft row is an
\* integer greater than zero.
C16_DraftQuantityPositive ==
  \A r \in inventory_counts : r.quantity \in Nat /\ r.quantity > 0

\* C16 witness: two scans of a pair were acknowledged (an insert with
\* quantity 1 and an increment), and an update, the only request that was not
\* a scan, has removed the pair's row, which only a quantity <= 0 does.
C16_Witness ==
  /\ hist.ops = { "update" }
  /\ \E c \in Clients : res[c].op = "update" /\ res[c].status = 200
  /\ \E k \in Pairs : hist.acked[k] = 2 /\ DraftsOfPair(inventory_counts, k) = {}

\* C17: a scan that found a DRAFT row of its pair and is answered success
\* changes, of all draft rows, only the quantity of one row it found, by +1:
\* that row keeps its id, user_id, scanned_at, product_id, location and
\* status, every other row is as it was, and no row is added or removed.
C17_MergeChangesQuantityOnly ==
  [][ \A c \in Clients :
        ( /\ pc[c] = "scan_write" /\ loc[c].checkRes # {}
          /\ pc'[c] = "idle" /\ res'[c].status = 200 )
        => \E id \in loc[c].checkRes :
             /\ \A r \in inventory_counts :
                  IF r.id = id
                  THEN \E n \in inventory_counts' :
                         /\ n.id = r.id /\ n.quantity = r.quantity + 1
                         /\ n.user_id = r.user_id /\ n.scanned_at = r.scanned_at
                         /\ n.product_id = r.product_id /\ n.location = r.location
                         /\ n.status = r.status
                  ELSE r \in inventory_counts'
             /\ Cardinality(inventory_counts') = Cardinality(inventory_counts) ]_vars

\* C17 witness: after scans only, the one draft row is the row user u1's scan
\* created, and the scan of user u2 was merged into it: quantity 2, user_id
\* still u1.
C17_Witness ==
  /\ hist.ops = {}
  /\ res["u2"].op = "scan" /\ res["u2"].status = 200
  /\ \E r \in inventory_counts :
       /\ inventory_counts = { r }
       /\ r.user_id = "u1" /\ r.quantity = 2 /\ r.scanned_at = r.id
       /\ hist.acked[<< r.product_id, r.location >>] = 2

\* C18: the stock ledger changes only in the step in which a commit succeeds:
\* every step of a scan, a review or an update, every step of a commit before
\* its COMMIT and the end of a failed commit leave it as it is; and no step
\* removes a stock row or moves it to another product or location.
C18_StockChangedByCommitOnly ==
  [][ /\ stock_levels' # stock_levels => \E c \in Clients : CommitSucceeds(c)
      /\ \A c \in Clients :
           (req[c].op \in { "scan", "review", "update" } /\ pc'[c] # pc[c]) =>
             stock_levels' = stock_levels
      /\ \A c \in Clients : CommitEndsFailed(c) => stock_levels' = stock_levels
      /\ \A s \in stock_levels :
           \E n \in stock_levels' :
             n.rid = s.rid /\ n.product_id = s.product_id /\ n.location = s.location ]_vars

\* C18 witness: a commit that had upserted its drafts has failed and was
\* rolled back, after scans had stored the drafts it read: the ledger holds
\* what it held at the start and the drafts are still there.
C18_Witness ==
  /\ \E l \in LocationInputs :
       /\ hist.failed[l].how = "upserted"
       /\ AtLocation(inventory_counts, l) # {}
  /\ \E c \in Clients : res[c].op = "commit" /\ res[c].status = 500
  /\ stock_levels = { PosStock }

\* C19: when the handler of a commit that has opened its transaction (its
\* BEGIN was not rejected) returns, the transaction is over, ended by COMMIT
\* or by ROLLBACK, and the caller has been sent exactly one response: the
\* success payload with the count after COMMIT, or the 500 "Commit failed"
\* after ROLLBACK.
C19_CommitAnswersOnce ==
  [][ \A c \in Clients :
        ( /\ pc[c] \in { "commit_commit", "commit_rollback" } /\ pc'[c] = "idle"
          /\ loc[c].err # "commit_begin" )
        => /\ ~ tx'[c].open
           /\ res'[c].op = "commit"
           /\ \/ /\ pc[c] = "commit_commit"
                 /\ res'[c].status = 200 /\ res'[c].success
                 /\ res'[c].count = Cardinality(loc[c].drafts)
              \/ /\ pc[c] = "commit_rollback"
                 /\ res'[c].status = 500 /\ ~ res'[c].success ]_vars

=============================================================================
